---- MODULE Spec2Model ----
(***************************************************************************)
(* Model of the Gelato MCP server's tool layer: the four tools             *)
(* (search_orders, get_order_summary, search_products, get_product), the   *)
(* request models they construct and the envelopes they return.            *)
(*                                                                         *)
(* Conventions for Python values:                                          *)
(*   Optional[T]   None is <<>>, a present value v is <<v>>                *)
(*   str           a sequence of string tokens; in a date string the       *)
(*                 letter 'Z' is always a token of its own                 *)
(*   dict          a record (keys known) or a sequence of <<key, value>>   *)
(*   f-string      the concatenation of its parts, one token per part      *)
(*   exception     a record [type, message, attrs]                         *)
(***************************************************************************)
EXTENDS Integers, Sequences, FiniteSets, TLC

\* ------------------------------------------------------------------ bounds
SmallLimit == 2
MaxOffset == 1
NumOrders == 2

\* ------------------------------------------------------- program constants
MaxLimit == 100
DefaultLimit == 50
NotFoundStatus == 404

\* ----------------------------------------------------------------- helpers
None == <<>>
Some(v) == <<v>>
IsNone(o) == o = <<>>
Truthy(o) == o # <<>> /\ o[1] # <<>>
Str(n) == ToString(n)

\* the invocations that can be in flight at once, and the one slot of the
\* specification in which invocations follow one another
Slots == {1, 2}
SeqSlots == {1}

\* pc[s]      where the invocation in slot s stands: idle, awaiting (suspended
\*            at its client call), returned, raised, rejected (by the host)
\* args[s]    the arguments of the invocation
\* calls[s]   the calls the invocation has made to the client, in order
\* answers[s] the client's answers to those calls, in order
\* ret[s]     the value the invocation returned, if it returned
\* exc[s]     the exception that left the invocation, if one did
VARIABLES pc, args, calls, answers, ret, exc

\* life        where the lifespan stands: init, configured (settings loaded),
\*             probing (client constructed, test_connection pending), serving
\*             (suspended at its yield), stopped, failed (an exception left
\*             it before the yield), aborted (an exception left it after),
\*             interrupted (the user interrupted the run)
\* client      the lifespan's local variable client, if bound (an instance id)
\* ctx         the client in the lifespan context yielded to the host, if any
\* registry    client_registry._client
\* constructed the number of GelatoClient instances constructed so far
\* closes      the number of calls of client.close()
\* lifeExc     the exception that left the lifespan, if one did
VARIABLES life, client, ctx, registry, constructed, closes, lifeExc

\* regInstances the number of ClientRegistry objects __new__ has created
\* regLog       the registry methods called directly so far, oldest first
\* regGot       what the last direct get_client() gave, if there was one
VARIABLES regInstances, regLog, regGot

\* exitStatus   what main() returned, once it has returned
VARIABLE exitStatus

slotVars == <<pc, args, calls, answers, ret, exc>>

regVars == <<regInstances, regLog, regGot>>

lifeVars == <<life, client, ctx, registry, constructed, closes, lifeExc>>

vars == <<pc, args, calls, answers, ret, exc,
          life, client, ctx, registry, constructed, closes, lifeExc,
          regInstances, regLog, regGot, exitStatus>>

\* ------------------------------------------------------------- exceptions
\* class hierarchy of src/utils/exceptions.py
BaseOf(t) ==
    CASE t = "AuthenticationError" -> "GelatoAPIError"
      [] t = "OrderNotFoundError" -> "GelatoAPIError"
      [] t = "CatalogNotFoundError" -> "GelatoAPIError"
      [] t = "ProductNotFoundError" -> "GelatoAPIError"
      [] t = "GelatoAPIError" -> "Exception"
      [] t = "ValidationError" -> "ValueError"
      [] t = "ValueError" -> "Exception"
      [] t = "RuntimeError" -> "Exception"
      [] OTHER -> "BaseException"

RECURSIVE IsSubclass(_, _)
IsSubclass(t, c) ==
    IF t = c THEN TRUE
    ELSE IF t = "BaseException" THEN FALSE
    ELSE IsSubclass(BaseOf(t), c)

isinstance(e, c) == IsSubclass(e.type, c)

\* getattr(e, name, default)
getattr(e, name, default) ==
    IF name \in DOMAIN e.attrs THEN e.attrs[name] ELSE default

GelatoAPIError(message, status_code, response_data) ==
    [type |-> "GelatoAPIError",
     message |-> message,
     attrs |-> [status_code |-> status_code, response_data |-> response_data]]

OrderNotFoundError(order_id) ==
    [type |-> "OrderNotFoundError",
     message |-> <<"Order not found: ", order_id>>,
     attrs |-> [status_code |-> Some(NotFoundStatus),
                response_data |-> <<>>,
                order_id |-> order_id]]

CatalogNotFoundError(catalog_uid) ==
    [type |-> "CatalogNotFoundError",
     message |-> <<"Catalog not found: ", catalog_uid>>,
     attrs |-> [status_code |-> Some(NotFoundStatus),
                response_data |-> <<>>,
                catalog_uid |-> catalog_uid]]

ProductNotFoundError(product_uid) ==
    [type |-> "ProductNotFoundError",
     message |-> <<"Product not found: ", product_uid>>,
     attrs |-> [status_code |-> Some(NotFoundStatus),
                response_data |-> <<>>,
                product_uid |-> product_uid]]

\* the same error raised by a class that sets no status_code attribute
WithoutStatus(e) ==
    [e EXCEPT !.attrs = [k \in (DOMAIN e.attrs) \ {"status_code"} |-> e.attrs[k]]]

\* an exception outside the error taxonomy (builtin)
ValueError(message) ==
    [type |-> "ValueError", message |-> message, attrs |-> [args |-> message]]

ValidationError(field) ==
    [type |-> "ValidationError",
     message |-> <<"validation error for ", field>>,
     attrs |-> [args |-> <<field>>]]

\* ------------------------------------------------------------------ dates
ValidNaive == {"2024-01-01T00:00:00", "2024-12-31T23:59:59"}
ValidOffsets == {"+00:00", "+02:00"}

\* str.replace('Z', '+00:00')
\* replace that drops the 'Z' instead of writing the UTC offset
replaceZ_drop(s) == SelectSeq(s, LAMBDA x : x # "Z")

\* s.replace('Z', '+00:00')
replaceZ(s) == [i \in 1..Len(s) |-> IF s[i] = "Z" THEN "+00:00" ELSE s[i]]

\* datetime.fromisoformat: [ok, value]; ok = FALSE stands for ValueError
fromisoformat(s) ==
    IF Len(s) = 1 /\ s[1] \in ValidNaive
    THEN [ok |-> TRUE, value |-> [naive |-> s[1], utcoffset |-> None]]
    ELSE IF Len(s) = 2 /\ s[1] \in ValidNaive /\ s[2] \in ValidOffsets
    THEN [ok |-> TRUE, value |-> [naive |-> s[1], utcoffset |-> Some(s[2])]]
    ELSE [ok |-> FALSE, value |-> [naive |-> "", utcoffset |-> None]]

\* --------------------------------------------------------- request models
\* SearchOrdersParams(**kw): pydantic validation of the constrained fields
SearchOrdersParamsValid(kw) ==
    /\ (kw.limit # None => kw.limit[1] <= MaxLimit)
    /\ (kw.offset # None => kw.offset[1] >= 0)

SearchOrdersParamsFailingField(kw) ==
    IF kw.limit # None /\ ~(kw.limit[1] <= MaxLimit) THEN "limit" ELSE "offset"

SearchOrdersParams(kw) ==
    [cls |-> "SearchOrdersParams",
     fields |-> [channels |-> kw.channels,
                 countries |-> kw.countries,
                 currencies |-> kw.currencies,
                 endDate |-> kw.endDate,
                 financialStatuses |-> kw.financialStatuses,
                 fulfillmentStatuses |-> kw.fulfillmentStatuses,
                 ids |-> None,
                 limit |-> kw.limit,
                 offset |-> kw.offset,
                 orderReferenceId |-> None,
                 orderReferenceIds |-> kw.orderReferenceIds,
                 orderTypes |-> kw.orderTypes,
                 search |-> kw.search,
                 startDate |-> kw.startDate,
                 storeIds |-> kw.storeIds]]

\* model_dump(exclude_none=True): the fields that are not None, unwrapped
model_dump_exclude_none(m) ==
    [k \in {f \in DOMAIN m.fields : m.fields[f] # None} |-> m.fields[k][1]]

\* model_dump(): the object's fields as a plain dict
model_dump(m) == m.fields

\* dump_all that lists the objects last first
dump_all_reversed(ms) == [i \in 1..Len(ms) |-> model_dump(ms[Len(ms) + 1 - i])]

\* [m.model_dump() for m in ms]
dump_all(ms) == [i \in 1..Len(ms) |-> model_dump(ms[i])]

\* SearchProductsRequest(**kw): limit capped at 100, offset floored at 0
SearchProductsRequestValid(kw) ==
    /\ kw.limit <= MaxLimit
    /\ kw.offset >= 0

SearchProductsRequest(kw) ==
    [cls |-> "SearchProductsRequest",
     fields |-> [attributeFilters |-> kw.attributeFilters,
                 limit |-> kw.limit,
                 offset |-> kw.offset]]

\* ------------------------------------------------------- outcomes of code
Return(env) == [kind |-> "return", env |-> env]
Raise(e) == [kind |-> "raise", exc |-> e]
Await(method, params) == [kind |-> "await", call |-> [method |-> method, params |-> params]]

\* ------------------------------------------------ src/tools/orders.py
\* the host validates the arguments against the tool's signature
search_orders_signature(a) ==
    /\ a.limit <= MaxLimit
    /\ a.offset >= 0

invalid_date_envelope(field, value, example) ==
    [success |-> FALSE,
     error |-> [message |-> <<"Invalid ", field, " format: ">> \o value
                            \o <<". Use ISO 8601 format like '", example, "'">>,
                operation |-> <<"search_orders">>]]

parse_date(d) ==
    IF Truthy(d) THEN fromisoformat(replaceZ(d[1]))
    ELSE [ok |-> TRUE, value |-> [naive |-> "", utcoffset |-> None]]

parsed_date(d) == IF Truthy(d) THEN Some(parse_date(d).value) ELSE None

search_orders_kwargs(a) ==
    [orderTypes |-> a.order_types,
     countries |-> a.countries,
     currencies |-> a.currencies,
     financialStatuses |-> a.financial_statuses,
     fulfillmentStatuses |-> a.fulfillment_statuses,
     search |-> a.search_text,
     startDate |-> parsed_date(a.start_date),
     endDate |-> parsed_date(a.end_date),
     limit |-> Some(a.limit),
     offset |-> Some(a.offset),
     orderReferenceIds |-> a.order_reference_ids,
     storeIds |-> a.store_ids,
     channels |-> a.channels]

\* search_orders_begin without the check of end_date
search_orders_begin_no_end_check(a) ==
    IF ~parse_date(a.start_date).ok
    THEN Return(invalid_date_envelope("start_date", a.start_date[1], "2024-01-01T00:00:00Z"))
    ELSE Await("search_orders", SearchOrdersParams(search_orders_kwargs(a)))

\* search_orders up to the await of client.search_orders
search_orders_begin(a) ==
    IF ~parse_date(a.start_date).ok
    THEN Return(invalid_date_envelope("start_date", a.start_date[1], "2024-01-01T00:00:00Z"))
    ELSE IF ~parse_date(a.end_date).ok
    THEN Return(invalid_date_envelope("end_date", a.end_date[1], "2024-12-31T23:59:59Z"))
    ELSE IF ~SearchOrdersParamsValid(search_orders_kwargs(a))
    THEN Raise(ValidationError(SearchOrdersParamsFailingField(search_orders_kwargs(a))))
    ELSE Await("search_orders", SearchOrdersParams(search_orders_kwargs(a)))

\* has_more with the comparison loosened (a page longer than limit also counts)
has_more_atleast(items, limit) == Len(items) >= limit

has_more(items, limit) == Len(items) = limit

\* pagination that reports the page size asked for as the count
pagination_count_is_limit(items, offset, limit) ==
    [count |-> limit,
     offset |-> offset,
     limit |-> limit,
     has_more |-> has_more(items, limit)]

pagination(items, offset, limit) ==
    [count |-> Len(items),
     offset |-> offset,
     limit |-> limit,
     has_more |-> has_more(items, limit)]

search_orders_message(orders_data, offset, limit) ==
    IF Len(orders_data) = 0
    THEN <<"No orders found matching the search criteria">>
    ELSE IF Len(orders_data) = limit
    THEN <<"Found ", Str(Len(orders_data)), " orders (may have more results, use ",
           "offset=" \o Str(offset + limit), " to get next page)">>
    ELSE <<"Found ", Str(Len(orders_data)), " orders matching the search criteria">>

\* api_error_envelope without the operation key
api_error_envelope_no_operation(e, operation) ==
    [success |-> FALSE,
     error |-> [message |-> e.message,
                status_code |-> getattr(e, "status_code", None),
                response_data |-> getattr(e, "response_data", <<>>)]]

api_error_envelope(e, operation) ==
    [success |-> FALSE,
     error |-> [message |-> e.message,
                operation |-> operation,
                status_code |-> getattr(e, "status_code", None),
                response_data |-> getattr(e, "response_data", <<>>)]]

\* search_orders from the client's answer to its return
search_orders_resume(a, search_params, outcome) ==
    IF outcome.kind = "raise"
    THEN IF isinstance(outcome.exc, "GelatoAPIError")
         THEN Return(api_error_envelope(outcome.exc, <<"search_orders">>))
         ELSE Raise(outcome.exc)
    ELSE LET orders_data == dump_all(outcome.value.fields.orders)
         IN Return([success |-> TRUE,
                    data |-> [orders |-> orders_data,
                              pagination |-> pagination(orders_data, a.offset, a.limit),
                              search_params |-> model_dump_exclude_none(search_params)],
                    message |-> search_orders_message(orders_data, a.offset, a.limit)])

get_order_summary_begin(a) == Await("get_order", a.order_id)

\* get_order_summary_resume that never reads the error's status code
get_order_summary_resume_no_status(a, outcome) ==
    IF outcome.kind = "raise"
    THEN IF isinstance(outcome.exc, "GelatoAPIError")
         THEN Return([success |-> FALSE,
                      error |-> [message |-> outcome.exc.message,
                                 operation |-> <<"get_order_summary for order ", a.order_id>>,
                                 order_id |-> a.order_id,
                                 status_code |-> None,
                                 response_data |-> getattr(outcome.exc, "response_data", <<>>)]])
         ELSE Raise(outcome.exc)
    ELSE Return([success |-> TRUE,
                 data |-> model_dump(outcome.value),
                 message |-> <<"Retrieved order ", a.order_id, " successfully">>])

get_order_summary_resume(a, outcome) ==
    IF outcome.kind = "raise"
    THEN IF isinstance(outcome.exc, "GelatoAPIError")
         THEN Return([success |-> FALSE,
                      error |-> [message |-> outcome.exc.message,
                                 operation |-> <<"get_order_summary for order ", a.order_id>>,
                                 order_id |-> a.order_id,
                                 status_code |-> getattr(outcome.exc, "status_code", None),
                                 response_data |-> getattr(outcome.exc, "response_data", <<>>)]])
         ELSE Raise(outcome.exc)
    ELSE Return([success |-> TRUE,
                 data |-> model_dump(outcome.value),
                 message |-> <<"Retrieved order ", a.order_id, " successfully">>])

\* ------------------------------------------------ src/tools/products.py
invalid_limit_envelope(a) ==
    [success |-> FALSE,
     error |-> [message |-> <<"Invalid limit: ", Str(a.limit), ". Must be between 1 and 100.">>,
                operation |-> <<"search_products">>,
                catalog_uid |-> a.catalog_uid]]

invalid_offset_envelope(a) ==
    [success |-> FALSE,
     error |-> [message |-> <<"Invalid offset: ", Str(a.offset), ". Must be 0 or greater.">>,
                operation |-> <<"search_products">>,
                catalog_uid |-> a.catalog_uid]]

unexpected_error_envelope(prefix, e, operation, key, uid) ==
    [success |-> FALSE,
     error |-> [k \in {"message", "operation", key} |->
                   CASE k = "message" -> <<prefix>> \o e.message
                     [] k = "operation" -> operation
                     [] OTHER -> uid]]

\* not_found_envelope with the default of the generic handler (None)
not_found_envelope_default_none(e, operation, key, uid) ==
    [success |-> FALSE,
     error |-> [k \in {"message", "operation", key, "status_code"} |->
                   CASE k = "message" -> e.message
                     [] k = "operation" -> operation
                     [] k = "status_code" -> getattr(e, "status_code", None)
                     [] OTHER -> uid]]

not_found_envelope(e, operation, key, uid) ==
    [success |-> FALSE,
     error |-> [k \in {"message", "operation", key, "status_code"} |->
                   CASE k = "message" -> e.message
                     [] k = "operation" -> operation
                     [] k = "status_code" -> getattr(e, "status_code", Some(NotFoundStatus))
                     [] OTHER -> uid]]

\* keyed_api_error_envelope that drops the provider's body
keyed_api_error_envelope_no_body(e, operation, key, uid) ==
    [success |-> FALSE,
     error |-> [k \in {"message", "operation", key, "status_code", "response_data"} |->
                   CASE k = "message" -> e.message
                     [] k = "operation" -> operation
                     [] k = "status_code" -> getattr(e, "status_code", None)
                     [] k = "response_data" -> <<>>
                     [] OTHER -> uid]]

keyed_api_error_envelope(e, operation, key, uid) ==
    [success |-> FALSE,
     error |-> [k \in {"message", "operation", key, "status_code", "response_data"} |->
                   CASE k = "message" -> e.message
                     [] k = "operation" -> operation
                     [] k = "status_code" -> getattr(e, "status_code", None)
                     [] k = "response_data" -> getattr(e, "response_data", <<>>)
                     [] OTHER -> uid]]

search_products_kwargs(a) ==
    [attributeFilters |-> a.attribute_filters, limit |-> a.limit, offset |-> a.offset]

\* the except clauses of search_products, in order
search_products_except(a, e) ==
    IF isinstance(e, "CatalogNotFoundError")
    THEN Return(not_found_envelope(e, <<"search_products">>, "catalog_uid", a.catalog_uid))
    ELSE IF isinstance(e, "GelatoAPIError")
    THEN Return(keyed_api_error_envelope(e, <<"search_products">>, "catalog_uid", a.catalog_uid))
    ELSE IF isinstance(e, "Exception")
    THEN Return(unexpected_error_envelope("Unexpected error searching products: ", e,
                                          <<"search_products">>, "catalog_uid", a.catalog_uid))
    ELSE Raise(e)

\* search_products_begin with the lower limit check off by one
search_products_begin_limit0(a) ==
    IF a.limit < 0 \/ a.limit > MaxLimit
    THEN Return(invalid_limit_envelope(a))
    ELSE IF a.offset < 0
    THEN Return(invalid_offset_envelope(a))
    ELSE Await("search_products",
               [catalog_uid |-> a.catalog_uid,
                request |-> SearchProductsRequest(search_products_kwargs(a))])

\* search_products up to the await of client.search_products
search_products_begin(a) ==
    IF a.limit < 1 \/ a.limit > MaxLimit
    THEN Return(invalid_limit_envelope(a))
    ELSE IF a.offset < 0
    THEN Return(invalid_offset_envelope(a))
    ELSE IF ~SearchProductsRequestValid(search_products_kwargs(a))
    THEN search_products_except(a, ValidationError("limit"))
    ELSE Await("search_products",
               [catalog_uid |-> a.catalog_uid,
                request |-> SearchProductsRequest(search_products_kwargs(a))])

search_products_message(a, products_data) ==
    IF Len(products_data) = 0
    THEN IF Truthy(a.attribute_filters)
         THEN <<"No products found in catalog '", a.catalog_uid, "' matching the specified filters">>
         ELSE <<"No products found in catalog '", a.catalog_uid, "'">>
    ELSE IF Len(products_data) = a.limit
    THEN <<"Found ", Str(Len(products_data)), " products in catalog '", a.catalog_uid, "' ",
           "(may have more results, use ", "offset=" \o Str(a.offset + a.limit),
           " to get next page)">>
    ELSE <<"Found ", Str(Len(products_data)), " products in catalog '", a.catalog_uid, "'">>

\* search_products from the client's answer to its return
search_products_resume(a, outcome) ==
    IF outcome.kind = "raise"
    THEN search_products_except(a, outcome.exc)
    ELSE LET products_data == dump_all(outcome.value.fields.products)
             hits_data == model_dump(outcome.value.fields.hits)
         IN Return([success |-> TRUE,
                    data |-> [products |-> products_data,
                              hits |-> hits_data,
                              pagination |-> pagination(products_data, a.offset, a.limit),
                              search_params |-> [catalog_uid |-> a.catalog_uid,
                                                 attribute_filters |-> a.attribute_filters,
                                                 limit |-> a.limit,
                                                 offset |-> a.offset]],
                    message |-> search_products_message(a, products_data)])

get_product_begin(a) == Await("get_product", a.product_uid)

get_product_except(a, e) ==
    IF isinstance(e, "ProductNotFoundError")
    THEN Return(not_found_envelope(e, <<"get_product">>, "product_uid", a.product_uid))
    ELSE IF isinstance(e, "GelatoAPIError")
    THEN Return(keyed_api_error_envelope(e, <<"get_product">>, "product_uid", a.product_uid))
    ELSE IF isinstance(e, "Exception")
    THEN Return(unexpected_error_envelope("Unexpected error retrieving product: ", e,
                                          <<"get_product">>, "product_uid", a.product_uid))
    ELSE Raise(e)

\* get_product_resume that keeps a weight only when it is absent
get_product_resume_drops_weight(a, outcome) ==
    IF outcome.kind = "raise"
    THEN get_product_except(a, outcome.exc)
    ELSE Return([success |-> TRUE,
                 data |-> [model_dump(outcome.value) EXCEPT !.weight = None],
                 message |-> <<"Successfully retrieved product '", a.product_uid, "'">>])

get_product_resume(a, outcome) ==
    IF outcome.kind = "raise"
    THEN get_product_except(a, outcome.exc)
    ELSE Return([success |-> TRUE,
                 data |-> model_dump(outcome.value),
                 message |-> <<"Successfully retrieved product '", a.product_uid, "'">>])

\* ------------------------------------------ src/utils/client_registry.py
\* ClientRegistry.__new__: the number of instances after a call with n
\* instances in existence; the first call creates the singleton (the module
\* itself makes that call for its global client_registry)
ClientRegistry_new(n) == IF n = 0 THEN 1 ELSE n

set_client_other_instance(c) == Some(c + 1)

set_client(c) == Some(c)

clear_client == None

\* get_client that hands out the empty reference instead of raising
get_client_unchecked(reg) ==
    IF reg = None
    THEN [ok |-> TRUE, value |-> 0]
    ELSE [ok |-> TRUE, value |-> reg[1]]

\* get_client(): [ok, value]; ok = FALSE stands for RuntimeError
get_client(reg) ==
    IF reg = None
    THEN [ok |-> FALSE, value |-> 0]
    ELSE [ok |-> TRUE, value |-> reg[1]]

\* ------------------------------------------- src/resources/products.py
\* json.dumps(doc, indent=2, default=str): the JSON text of doc
json_dumps(doc) == [json |-> doc]

NoClientRegistered ==
    [type |-> "RuntimeError",
     message |-> <<"No Gelato client registered.">>,
     attrs |-> [args |-> <<>>]]

\* client = client_registry.get_client(), outside the try, then the one await
resource_begin(reg, method, params) ==
    IF get_client(reg).ok THEN Await(method, params) ELSE Raise(NoClientRegistered)

\* resource_error that leaves the exception's text out
resource_error_no_message(error, e) ==
    json_dumps([error |-> error,
                message |-> <<>>,
                status_code |-> getattr(e, "status_code", None)])

resource_error(error, e) ==
    json_dumps([error |-> error,
                message |-> e.message,
                status_code |-> getattr(e, "status_code", None)])

list_catalogs_begin(reg) == resource_begin(reg, "list_catalogs", <<>>)

list_catalogs_resume(outcome) ==
    IF outcome.kind = "raise"
    THEN IF isinstance(outcome.exc, "GelatoAPIError")
         THEN Return(resource_error(<<"Failed to fetch product catalogs">>, outcome.exc))
         ELSE Raise(outcome.exc)
    ELSE Return(json_dumps([catalogs |-> dump_all(outcome.value),
                            count |-> Len(outcome.value),
                            description |-> <<"Available product catalogs">>]))

get_catalog_begin(a, reg) == resource_begin(reg, "get_catalog", a.catalog_uid)

get_catalog_resume(a, outcome) ==
    IF outcome.kind = "raise"
    THEN IF isinstance(outcome.exc, "CatalogNotFoundError")
         THEN Return(json_dumps([error |-> <<"Catalog not found: ", a.catalog_uid>>,
                                 message |-> outcome.exc.message,
                                 catalog_uid |-> a.catalog_uid]))
         ELSE IF isinstance(outcome.exc, "GelatoAPIError")
         THEN Return(json_dumps([error |-> <<"Failed to fetch catalog details">>,
                                 message |-> outcome.exc.message,
                                 catalog_uid |-> a.catalog_uid,
                                 status_code |-> getattr(outcome.exc, "status_code", None)]))
         ELSE Raise(outcome.exc)
    ELSE Return(json_dumps(model_dump(outcome.value)))

get_catalog_summary_begin(reg) == resource_begin(reg, "list_catalogs", <<>>)

catalog_summary(catalogs) ==
    [i \in 1..Len(catalogs) |->
        [uid |-> catalogs[i].fields.catalogUid,
         title |-> catalogs[i].fields.title,
         resource_uri |-> <<"catalogs://", catalogs[i].fields.catalogUid>>]]

get_catalog_summary_resume(outcome) ==
    IF outcome.kind = "raise"
    THEN IF isinstance(outcome.exc, "GelatoAPIError")
         THEN Return(resource_error(<<"Failed to fetch catalog summary">>, outcome.exc))
         ELSE Raise(outcome.exc)
    ELSE Return(json_dumps([catalog_summary |-> catalog_summary(outcome.value),
                            total_catalogs |-> Len(outcome.value),
                            description |->
                              <<"Summary of all available product catalogs with resource URIs">>]))

\* ------------------------------------------------------- the client (mock)
ServerErrorStatus == 500
UnauthorizedStatus == 401

OrderSummary(i) ==
    [cls |-> "OrderSummary",
     fields |-> [id |-> "order-" \o Str(i),
                 orderType |-> IF i % 2 = 0 THEN "order" ELSE "draft",
                 fulfillmentStatus |-> "created"]]

\* a list of n orders, the k-th rotation of the provider's orders
OrderList(n, k) == [i \in 1..n |-> OrderSummary((i + k) % NumOrders)]

OrderDetail(order_id) ==
    [cls |-> "OrderDetail",
     fields |-> [id |-> order_id, orderType |-> "order",
                 fulfillmentStatus |-> "created", items |-> <<>>]]

Product(i) ==
    [cls |-> "Product",
     fields |-> [productUid |-> "product-" \o Str(i),
                 attributes |-> << <<"Size", "M">> >>]]

ProductList(n, k) == [i \in 1..n |-> Product((i + k) % NumOrders)]

FilterHits ==
    [cls |-> "FilterHits",
     fields |-> [attributeHits |-> << <<"CoatingType", << <<"none", 2137>> >> >> >>]]

\* ProductDetail(**data): weight and dimensions are kept as given
ProductDetail(product_uid, weight, dimensions) ==
    [cls |-> "ProductDetail",
     fields |-> [productUid |-> product_uid, weight |-> weight,
                 dimensions |-> dimensions]]

\* Catalog(catalogUid=..., title=...)
Catalog(catalogUid, title) ==
    [cls |-> "Catalog", fields |-> [catalogUid |-> catalogUid, title |-> title]]

\* pydantic validation of Catalog(**kw): both fields are required str
\* fields, declared with Field(...) and no length constraint
CatalogValid(kw) == kw.catalogUid # None /\ kw.title # None

CatalogFailingField(kw) == IF kw.catalogUid = None THEN "catalogUid" ELSE "title"

CatalogDetail(catalogUid) ==
    [cls |-> "CatalogDetail",
     fields |-> [catalogUid |-> catalogUid, title |-> catalogUid,
                 productAttributes |->
                   << [productAttributeUid |-> "Orientation", title |-> "Orientation",
                       values |-> << [productAttributeValueUid |-> "ver",
                                      title |-> "Vertical"] >>] >>]]

\* the catalog lists the provider can answer with, in the provider's order
CatalogLists ==
    {<<>>,
     <<Catalog("posters", "Posters"), Catalog("mugs", "Mugs")>>,
     <<Catalog("mugs", "Mugs"), Catalog("posters", "Posters")>>,
     <<Catalog("summary", "Summary"), Catalog("list", "List")>>}

\* a plain string, and a {value, measureUnit} object
Weights == {<<"lightweight">>, << <<"value", "100.0">>, <<"measureUnit", "grams">> >>}

\* no dimensions, and a mapping with an object, a plain string and a nested
\* mapping as values
Dimensions ==
    {None,
     << <<"Width", << <<"value", "210">>, <<"measureUnit", "mm">> >> >>,
        <<"Assemblytype", <<"fixed_one_stack">> >>,
        <<"ComplexField", << <<"nested", << <<"data", <<"whatever">> >> >> >> >> >> >>}

\* lengths of the lists the client returns for a page of the given limit
ReturnLens(limit) ==
    {n \in (0..(SmallLimit + 1)) \cup {limit - 1, limit, limit + 1} : n >= 0}

\* failures of the Error Taxonomy that every client method can raise
ApiErrors ==
    {GelatoAPIError(<<"Internal server error">>, Some(ServerErrorStatus),
                    << <<"detail", "Server error">> >>),
     GelatoAPIError(<<"Request timed out">>, None, <<>>)}

NotFoundErrors(call) ==
    CASE call.method = "get_order" -> {OrderNotFoundError(call.params)}
      [] call.method = "search_products" ->
           {CatalogNotFoundError(call.params.catalog_uid),
            WithoutStatus(CatalogNotFoundError(call.params.catalog_uid))}
      [] call.method = "get_product" ->
           {ProductNotFoundError(call.params),
            WithoutStatus(ProductNotFoundError(call.params))}
      [] call.method = "get_catalog" -> {CatalogNotFoundError(call.params)}
      [] OTHER -> {}

\* failures outside the taxonomy (e.g. a response that fails deserialization)
OtherErrors == {ValueError(<<"Unexpected validation error">>)}

ClientRaisable(call) == ApiErrors \cup NotFoundErrors(call) \cup OtherErrors

ClientValues(call) ==
    CASE call.method = "search_orders" ->
           {[cls |-> "SearchOrdersResponse", fields |-> [orders |-> OrderList(n, k)]] :
              n \in ReturnLens(call.params.fields.limit[1]), k \in 0..(NumOrders - 1)}
      [] call.method = "search_products" ->
           {[cls |-> "SearchProductsResponse",
             fields |-> [products |-> ProductList(n, k), hits |-> FilterHits]] :
              n \in ReturnLens(call.params.request.fields.limit), k \in 0..(NumOrders - 1)}
      [] call.method = "get_order" -> {OrderDetail(call.params)}
      [] call.method = "get_product" -> {ProductDetail(call.params, w, d) : w \in Weights, d \in Dimensions}
      [] call.method = "list_catalogs" -> CatalogLists
      [] call.method = "get_catalog" -> {CatalogDetail(call.params)}
      [] OTHER -> {}

\* ------------------------------------------------------------------ inputs
Tools == {"search_orders", "get_order_summary", "search_products", "get_product"}

Resources == {"list_catalogs", "get_catalog", "get_catalog_summary"}

LimitValues ==
    ((-1)..SmallLimit) \cup {DefaultLimit} \cup {MaxLimit - 1, MaxLimit, MaxLimit + 1}

OffsetValues == (-1)..MaxOffset

DateInputs ==
    {None,
     Some(<<>>),
     Some(<<"2024-01-01T00:00:00", "Z">>),
     Some(<<"2024-01-01T00:00:00", "+00:00">>),
     Some(<<"not-a-date">>)}

ListInputs == {None, Some(<<"US">>)}

FilterInputs == {None, Some(<<>>), Some(<< <<"Orientation", <<"ver">> >> >>)}

OrderIds == {"order-1", "missing-order"}
CatalogUids == {"posters", "mugs"}
ProductUids == {"product-1", "missing-product"}

\* the parameters a caller leaves out together: none, the two pagination
\* parameters, every parameter that has a default
OmittedSets(optional) == {{}, {"limit", "offset"}, optional}

SearchOrdersOptional ==
    {"order_types", "countries", "currencies", "financial_statuses",
     "fulfillment_statuses", "search_text", "start_date", "end_date", "limit",
     "offset", "order_reference_ids", "store_ids", "channels"}

\* search_orders_bind with limit defaulting to the maximum
search_orders_bind_max(a, omitted) ==
    [k \in DOMAIN a \cup {"omitted"} |->
        IF k = "omitted" THEN omitted
        ELSE IF k \notin omitted THEN a[k]
        ELSE IF k = "limit" THEN MaxLimit
        ELSE IF k = "offset" THEN 0
        ELSE None]

\* the host binds the call to the signature of search_orders: a parameter the
\* caller left out takes its default (None, limit 50, offset 0)
search_orders_bind(a, omitted) ==
    [k \in DOMAIN a \cup {"omitted"} |->
        IF k = "omitted" THEN omitted
        ELSE IF k \notin omitted THEN a[k]
        ELSE IF k = "limit" THEN DefaultLimit
        ELSE IF k = "offset" THEN 0
        ELSE None]

SearchOrdersCalls ==
    {search_orders_bind(
       [tool |-> "search_orders",
        order_types |-> None, countries |-> c, currencies |-> None,
        financial_statuses |-> None, fulfillment_statuses |-> None,
        search_text |-> None, start_date |-> sd, end_date |-> ed,
        limit |-> l, offset |-> o,
        order_reference_ids |-> None, store_ids |-> None, channels |-> None], om) :
        c \in ListInputs, sd \in DateInputs, ed \in DateInputs,
        l \in LimitValues, o \in OffsetValues,
        om \in OmittedSets(SearchOrdersOptional)}

GetOrderSummaryCalls == {[tool |-> "get_order_summary", order_id |-> x] : x \in OrderIds}

SearchProductsOptional == {"attribute_filters", "limit", "offset"}

\* the same binding for search_products (attribute_filters None, limit 50,
\* offset 0)
search_products_bind(a, omitted) ==
    [k \in DOMAIN a \cup {"omitted"} |->
        IF k = "omitted" THEN omitted
        ELSE IF k \notin omitted THEN a[k]
        ELSE IF k = "limit" THEN DefaultLimit
        ELSE IF k = "offset" THEN 0
        ELSE None]

SearchProductsCalls ==
    {search_products_bind(
       [tool |-> "search_products", catalog_uid |-> c, attribute_filters |-> f,
        limit |-> l, offset |-> o], om) :
        c \in CatalogUids, f \in FilterInputs, l \in LimitValues, o \in OffsetValues,
        om \in OmittedSets(SearchProductsOptional)}

GetProductCalls == {[tool |-> "get_product", product_uid |-> x] : x \in ProductUids}

\* keyword arguments of Catalog(...): a field left out, empty, or filled
CatalogInputs ==
    {[tool |-> "Catalog", catalogUid |-> u, title |-> t] :
        u \in {None, Some(""), Some("cards")},
        t \in {None, Some(""), Some("Greeting Cards")}}

ParamsInputs ==
    {[tool |-> "SearchOrdersParams",
      orderTypes |-> None, countries |-> None, currencies |-> None,
      financialStatuses |-> None, fulfillmentStatuses |-> None, search |-> None,
      startDate |-> None, endDate |-> None, limit |-> l, offset |-> o,
      orderReferenceIds |-> None, storeIds |-> None, channels |-> None] :
        l \in {None} \cup {Some(x) : x \in LimitValues},
        o \in {None} \cup {Some(x) : x \in OffsetValues}}

\* ------------------------------------------------------------------- state
NoArgs == [tool |-> "none"]

Init ==
    /\ pc = [s \in Slots |-> "idle"]
    /\ args = [s \in Slots |-> NoArgs]
    /\ calls = [s \in Slots |-> <<>>]
    /\ answers = [s \in Slots |-> <<>>]
    /\ ret = [s \in Slots |-> None]
    /\ exc = [s \in Slots |-> None]
    /\ life = "init"
    /\ client = None
    /\ ctx = None
    /\ registry = None
    /\ constructed = 0
    /\ closes = 0
    /\ lifeExc = None
    /\ regInstances = ClientRegistry_new(0)
    /\ regLog = <<>>
    /\ regGot = None
    /\ exitStatus = None

\* the invocation in slot s continues with the outcome o of a piece of code
Continue(s, a, o, via) ==
    /\ args' = [args EXCEPT ![s] = a]
    /\ UNCHANGED answers
    /\ UNCHANGED <<lifeVars, regVars, exitStatus>>
    /\ CASE o.kind = "return" ->
              /\ pc' = [pc EXCEPT ![s] = "returned"]
              /\ ret' = [ret EXCEPT ![s] = Some(o.env)]
              /\ UNCHANGED <<calls, exc>>
         [] o.kind = "raise" ->
              /\ pc' = [pc EXCEPT ![s] = "raised"]
              /\ exc' = [exc EXCEPT ![s] = Some(o.exc)]
              /\ UNCHANGED <<calls, ret>>
         [] o.kind = "await" ->
              /\ pc' = [pc EXCEPT ![s] = "awaiting"]
              /\ calls' = [calls EXCEPT ![s] =
                              Append(@, [method |-> o.call.method,
                                         params |-> o.call.params,
                                         client |-> via])]
              /\ UNCHANGED <<ret, exc>>

Rejected(s, a) ==
    /\ args' = [args EXCEPT ![s] = a]
    /\ pc' = [pc EXCEPT ![s] = "rejected"]
    /\ UNCHANGED <<calls, answers, ret, exc>>
    /\ UNCHANGED <<lifeVars, regVars, exitStatus>>

\* client: GelatoClient = ctx.request_context.lifespan_context["client"]
lifespan_client == ctx[1]

Call_search_orders(s) ==
    /\ life = "serving"
    /\ pc[s] = "idle"
    /\ \E a \in SearchOrdersCalls :
         IF search_orders_signature(a)
         THEN Continue(s, a, search_orders_begin(a), lifespan_client)
         ELSE Rejected(s, a)

Call_get_order_summary(s) ==
    /\ life = "serving"
    /\ pc[s] = "idle"
    /\ \E a \in GetOrderSummaryCalls :
         Continue(s, a, get_order_summary_begin(a), lifespan_client)

Call_search_products(s) ==
    /\ life = "serving"
    /\ pc[s] = "idle"
    /\ \E a \in SearchProductsCalls :
         Continue(s, a, search_products_begin(a), lifespan_client)

Call_get_product(s) ==
    /\ life = "serving"
    /\ pc[s] = "idle"
    /\ \E a \in GetProductCalls :
         Continue(s, a, get_product_begin(a), lifespan_client)

Read_list_catalogs(s) ==
    /\ life = "serving"
    /\ pc[s] = "idle"
    /\ Continue(s, [tool |-> "list_catalogs"], list_catalogs_begin(registry),
                get_client(registry).value)

Read_get_catalog(s) ==
    /\ life = "serving"
    /\ pc[s] = "idle"
    /\ \E c \in CatalogUids :
         LET a == [tool |-> "get_catalog", catalog_uid |-> c]
         IN Continue(s, a, get_catalog_begin(a, registry), get_client(registry).value)

Read_get_catalog_summary(s) ==
    /\ life = "serving"
    /\ pc[s] = "idle"
    /\ Continue(s, [tool |-> "get_catalog_summary"], get_catalog_summary_begin(registry),
                get_client(registry).value)

\* the resources as registered with @mcp.resource(uri), in source order; a
\* uri is the scheme and the rest, "{catalog_uid}" marks the template
ResourceTable ==
    <<[uri |-> <<"catalogs://", "list">>, tool |-> "list_catalogs"],
      [uri |-> <<"catalogs://", "{catalog_uid}">>, tool |-> "get_catalog"],
      [uri |-> <<"catalogs://", "summary">>, tool |-> "get_catalog_summary"]>>

IsTemplate(r) == r.uri[2] = "{catalog_uid}"

\* does the registration serve the uri: a template binds its parameter to any
\* non-empty rest, a fixed uri serves itself only
Matches(r, uri) ==
    IF IsTemplate(r)
    THEN Len(uri) = 2 /\ uri[1] = r.uri[1] /\ uri[2] # ""
    ELSE uri = r.uri

\* the invocations the host can turn a read of uri into; every registration
\* that serves the uri is a candidate
Routes(uri, link) ==
    {IF IsTemplate(ResourceTable[i])
     THEN [tool |-> ResourceTable[i].tool, catalog_uid |-> uri[2], link |-> link]
     ELSE [tool |-> ResourceTable[i].tool, link |-> link] :
        i \in {j \in 1..Len(ResourceTable) : Matches(ResourceTable[j], uri)}}

\* the caller reads a resource_uri it found in the catalog summary in slot s;
\* the new read takes the slot
Follow_resource_uri(s) ==
    /\ life = "serving"
    /\ pc[s] = "returned"
    /\ args[s].tool = "get_catalog_summary"
    /\ "catalog_summary" \in DOMAIN ret[s][1].json
    /\ \E i \in 1..Len(ret[s][1].json.catalog_summary) :
         LET entry == ret[s][1].json.catalog_summary[i]
         IN \E a \in Routes(entry.resource_uri, entry.uid) :
              LET o == CASE a.tool = "get_catalog" -> get_catalog_begin(a, registry)
                         [] a.tool = "list_catalogs" -> list_catalogs_begin(registry)
                         [] a.tool = "get_catalog_summary" ->
                              get_catalog_summary_begin(registry)
              IN /\ args' = [args EXCEPT ![s] = a]
                 /\ answers' = [answers EXCEPT ![s] = <<>>]
                 /\ ret' = [ret EXCEPT ![s] = None]
                 /\ IF o.kind = "await"
                    THEN /\ pc' = [pc EXCEPT ![s] = "awaiting"]
                         /\ calls' = [calls EXCEPT ![s] =
                                         <<[method |-> o.call.method,
                                            params |-> o.call.params,
                                            client |-> get_client(registry).value]>>]
                         /\ UNCHANGED exc
                    ELSE /\ pc' = [pc EXCEPT ![s] = "raised"]
                         /\ calls' = [calls EXCEPT ![s] = <<>>]
                         /\ exc' = [exc EXCEPT ![s] = Some(o.exc)]
    /\ UNCHANGED <<lifeVars, regVars, exitStatus>>

Construct_SearchOrdersParams(s) ==
    /\ pc[s] = "idle"
    /\ \E kw \in ParamsInputs :
         IF SearchOrdersParamsValid(kw)
         THEN Continue(s, kw, Return(SearchOrdersParams(kw)), 0)
         ELSE Continue(s, kw, Raise(ValidationError(SearchOrdersParamsFailingField(kw))), 0)

Construct_Catalog(s) ==
    /\ pc[s] = "idle"
    /\ \E kw \in CatalogInputs :
         IF CatalogValid(kw)
         THEN Continue(s, kw, Return(Catalog(kw.catalogUid[1], kw.title[1])), 0)
         ELSE Continue(s, kw, Raise(ValidationError(CatalogFailingField(kw))), 0)

LastCall(s) == calls[s][Len(calls[s])]

Resume(a, call, outcome) ==
    CASE a.tool = "search_orders" -> search_orders_resume(a, call.params, outcome)
      [] a.tool = "get_order_summary" -> get_order_summary_resume(a, outcome)
      [] a.tool = "search_products" -> search_products_resume(a, outcome)
      [] a.tool = "get_product" -> get_product_resume(a, outcome)
      [] a.tool = "list_catalogs" -> list_catalogs_resume(outcome)
      [] a.tool = "get_catalog" -> get_catalog_resume(a, outcome)
      [] a.tool = "get_catalog_summary" -> get_catalog_summary_resume(outcome)

\* Answer that keeps the last result in a buffer shared by all invocations
Answer_shared_result(s, outcome) ==
    LET o == Resume(args[s], LastCall(s), outcome)
    IN /\ answers' = [answers EXCEPT ![s] = Append(@, outcome)]
       /\ UNCHANGED args
       /\ UNCHANGED <<lifeVars, regVars, exitStatus>>
       /\ CASE o.kind = "return" ->
                 /\ pc' = [pc EXCEPT ![s] = "returned"]
                 /\ ret' = [t \in Slots |->
                              IF t = s \/ pc[t] = "returned" THEN Some(o.env) ELSE ret[t]]
                 /\ UNCHANGED <<calls, exc>>
            [] o.kind = "raise" ->
                 /\ pc' = [pc EXCEPT ![s] = "raised"]
                 /\ exc' = [exc EXCEPT ![s] = Some(o.exc)]
                 /\ UNCHANGED <<calls, ret>>
            [] o.kind = "await" ->
                 /\ pc' = [pc EXCEPT ![s] = "awaiting"]
                 /\ calls' = [calls EXCEPT ![s] =
                                 Append(@, [method |-> o.call.method,
                                            params |-> o.call.params,
                                            client |-> LastCall(s).client])]
                 /\ UNCHANGED <<ret, exc>>

\* Answer that repeats a failed call once before giving up
Answer_retry_once(s, outcome) ==
    LET o == IF outcome.kind = "raise" /\ Len(calls[s]) = 1
             THEN Await(LastCall(s).method, LastCall(s).params)
             ELSE Resume(args[s], LastCall(s), outcome)
    IN /\ answers' = [answers EXCEPT ![s] = Append(@, outcome)]
       /\ UNCHANGED args
       /\ UNCHANGED <<lifeVars, regVars, exitStatus>>
       /\ CASE o.kind = "return" ->
                 /\ pc' = [pc EXCEPT ![s] = "returned"]
                 /\ ret' = [ret EXCEPT ![s] = Some(o.env)]
                 /\ UNCHANGED <<calls, exc>>
            [] o.kind = "raise" ->
                 /\ pc' = [pc EXCEPT ![s] = "raised"]
                 /\ exc' = [exc EXCEPT ![s] = Some(o.exc)]
                 /\ UNCHANGED <<calls, ret>>
            [] o.kind = "await" ->
                 /\ pc' = [pc EXCEPT ![s] = "awaiting"]
                 /\ calls' = [calls EXCEPT ![s] =
                                 Append(@, [method |-> o.call.method,
                                            params |-> o.call.params,
                                            client |-> LastCall(s).client])]
                 /\ UNCHANGED <<ret, exc>>

\* the client answers the pending call and the handler runs on to its end
Answer(s, outcome) ==
    LET o == Resume(args[s], LastCall(s), outcome)
    IN /\ answers' = [answers EXCEPT ![s] = Append(@, outcome)]
       /\ UNCHANGED args
       /\ UNCHANGED <<lifeVars, regVars, exitStatus>>
       /\ CASE o.kind = "return" ->
                 /\ pc' = [pc EXCEPT ![s] = "returned"]
                 /\ ret' = [ret EXCEPT ![s] = Some(o.env)]
                 /\ UNCHANGED <<calls, exc>>
            [] o.kind = "raise" ->
                 /\ pc' = [pc EXCEPT ![s] = "raised"]
                 /\ exc' = [exc EXCEPT ![s] = Some(o.exc)]
                 /\ UNCHANGED <<calls, ret>>
            [] o.kind = "await" ->
                 /\ pc' = [pc EXCEPT ![s] = "awaiting"]
                 /\ calls' = [calls EXCEPT ![s] =
                                 Append(@, [method |-> o.call.method,
                                            params |-> o.call.params,
                                            client |-> LastCall(s).client])]
                 /\ UNCHANGED <<ret, exc>>

ClientReturns(s) ==
    /\ pc[s] = "awaiting"
    /\ \E v \in ClientValues(LastCall(s)) :
         Answer(s, [kind |-> "value", value |-> v])

ClientRaises(s) ==
    /\ pc[s] = "awaiting"
    /\ \E e \in ClientRaisable(LastCall(s)) :
         Answer(s, [kind |-> "raise", exc |-> e])

\* the host hands the result to the caller; the slot is free again
Deliver(s) ==
    /\ pc[s] \in {"returned", "raised", "rejected"}
    /\ pc' = [pc EXCEPT ![s] = "idle"]
    /\ args' = [args EXCEPT ![s] = NoArgs]
    /\ calls' = [calls EXCEPT ![s] = <<>>]
    /\ answers' = [answers EXCEPT ![s] = <<>>]
    /\ ret' = [ret EXCEPT ![s] = None]
    /\ exc' = [exc EXCEPT ![s] = None]
    /\ UNCHANGED <<lifeVars, regVars, exitStatus>>

\* ------------------------------------------------------ src/server.py
AuthenticationError(message) ==
    [type |-> "AuthenticationError",
     message |-> message,
     attrs |-> [status_code |-> Some(UnauthorizedStatus), response_data |-> <<>>]]

\* what get_settings() raises on a missing or malformed API key
SettingsErrors == {ValueError(<<"GELATO_API_KEY is required">>)}

\* what GelatoClient(...) or test_connection() can raise
StartupErrors ==
    {AuthenticationError(<<"Invalid API key">>),
     GelatoAPIError(<<"Connection failed">>, None, <<>>),
     [type |-> "RuntimeError", message |-> <<"unexpected">>, attrs |-> [args |-> <<>>]]}

\* the finally block of lifespan: close the client if bound, then clear the
\* registry; an exception of close() skips clear_client and is only logged
Cleanup(closeRaises) ==
    IF client # None
    THEN /\ closes' = closes + 1
         /\ registry' = IF closeRaises THEN registry ELSE clear_client
    ELSE /\ closes' = closes
         /\ registry' = clear_client

LoadSettings ==
    /\ life = "init"
    /\ \/ /\ life' = "configured"
          /\ UNCHANGED lifeExc
       \/ \E e \in SettingsErrors :
             /\ life' = "failed"
             /\ lifeExc' = Some(e)
    /\ UNCHANGED <<client, ctx, registry, constructed, closes>>
    /\ UNCHANGED <<slotVars, regVars, exitStatus>>

\* ConstructClient that registers the client as soon as it exists
ConstructClient_registers ==
    /\ life = "configured"
    /\ \/ /\ constructed' = constructed + 1
          /\ client' = Some(constructed + 1)
          /\ registry' = set_client(constructed + 1)
          /\ life' = "probing"
          /\ UNCHANGED <<closes, lifeExc>>
       \/ \E e \in StartupErrors :
             /\ life' = "failed"
             /\ lifeExc' = Some(e)
             /\ Cleanup(FALSE)
             /\ UNCHANGED <<client, constructed>>
    /\ UNCHANGED ctx
    /\ UNCHANGED <<slotVars, regVars, exitStatus>>

ConstructClient ==
    /\ life = "configured"
    /\ \/ /\ constructed' = constructed + 1
          /\ client' = Some(constructed + 1)
          /\ life' = "probing"
          /\ UNCHANGED <<registry, closes, lifeExc>>
       \/ \E e \in StartupErrors :
             /\ life' = "failed"
             /\ lifeExc' = Some(e)
             /\ Cleanup(FALSE)
             /\ UNCHANGED <<client, constructed>>
    /\ UNCHANGED ctx
    /\ UNCHANGED <<slotVars, regVars, exitStatus>>

TestConnection_degrades ==
    /\ life = "probing"
    /\ \/ /\ registry' = set_client(client[1])
          /\ ctx' = Some(client[1])
          /\ life' = "serving"
          /\ UNCHANGED <<closes, lifeExc>>
       \/ \E e \in StartupErrors :
             /\ registry' = set_client(client[1])
             /\ ctx' = Some(client[1])
             /\ life' = "serving"
             /\ lifeExc' = Some(e)
             /\ UNCHANGED closes
    /\ UNCHANGED <<client, constructed>>
    /\ UNCHANGED <<slotVars, regVars, exitStatus>>

TestConnection ==
    /\ life = "probing"
    /\ \/ /\ registry' = set_client(client[1])
          /\ ctx' = Some(client[1])
          /\ life' = "serving"
          /\ UNCHANGED <<closes, lifeExc>>
       \/ \E e \in StartupErrors, closeRaises \in BOOLEAN :
             /\ life' = "failed"
             /\ lifeExc' = Some(e)
             /\ Cleanup(closeRaises)
             /\ UNCHANGED ctx
    /\ UNCHANGED <<client, constructed>>
    /\ UNCHANGED <<slotVars, regVars, exitStatus>>

\* the host leaves the lifespan context after its requests are done
Shutdown ==
    /\ life = "serving"
    /\ \A s \in Slots : pc[s] = "idle"
    /\ \E closeRaises \in BOOLEAN : Cleanup(closeRaises)
    /\ life' = "stopped"
    /\ UNCHANGED <<client, ctx, constructed, lifeExc>>
    /\ UNCHANGED <<slotVars, regVars, exitStatus>>

\* the host throws an exception of its serving loop into the lifespan's yield
ServeError ==
    /\ life = "serving"
    /\ \A s \in Slots : pc[s] = "idle"
    /\ \E e \in StartupErrors, closeRaises \in BOOLEAN :
          /\ Cleanup(closeRaises)
          /\ lifeExc' = Some(e)
    /\ life' = "aborted"
    /\ UNCHANGED <<client, ctx, constructed>>
    /\ UNCHANGED <<slotVars, regVars, exitStatus>>

\* the user interrupts the process while the lifespan is suspended at an
\* await or at its yield: the run is cancelled, the finally block runs and
\* KeyboardInterrupt leaves server.run()
Interrupt ==
    /\ life \in {"probing", "serving"}
    /\ \A s \in Slots : pc[s] = "idle"
    /\ \E closeRaises \in BOOLEAN : Cleanup(closeRaises)
    /\ life' = "interrupted"
    /\ UNCHANGED <<client, ctx, constructed, lifeExc>>
    /\ UNCHANGED <<slotVars, regVars, exitStatus>>

KeyboardInterrupt ==
    [type |-> "KeyboardInterrupt", message |-> <<>>, attrs |-> [args |-> <<>>]]

\* what leaves server.run(): nothing, KeyboardInterrupt, or the exception
\* that left the lifespan
server_run == IF life = "interrupted" THEN Some(KeyboardInterrupt) ELSE lifeExc

\* run_server that logs every exception and returns
run_server_swallows(raised) == None

\* run_server(): what it raises, given what server.run() raised
run_server(raised) ==
    IF raised = None THEN None
    ELSE IF isinstance(raised[1], "KeyboardInterrupt") THEN None
    ELSE raised

\* main(): its return value, given what run_server() raised; an exception
\* that is no Exception is not caught and main returns nothing
main(raised) ==
    IF raised = None THEN Some(0)
    ELSE IF isinstance(raised[1], "Exception") THEN Some(1)
    ELSE None

\* the lifespan is over, server.run() ends and main returns
Exit ==
    /\ life \in {"stopped", "failed", "aborted", "interrupted"}
    /\ exitStatus = None
    /\ exitStatus' = main(run_server(server_run))
    /\ UNCHANGED <<slotVars, lifeVars, regVars>>

Next ==
    \E s \in SeqSlots :
        \/ Call_search_orders(s)
        \/ Call_get_order_summary(s)
        \/ Call_search_products(s)
        \/ Call_get_product(s)
        \/ Construct_SearchOrdersParams(s)
        \/ Construct_Catalog(s)
        \/ ClientReturns(s)
        \/ ClientRaises(s)
        \/ Deliver(s)
        \/ Read_list_catalogs(s)
        \/ Read_get_catalog(s)
        \/ Read_get_catalog_summary(s)
        \/ Follow_resource_uri(s)
        \/ LoadSettings
        \/ ConstructClient
        \/ TestConnection
        \/ Shutdown
        \/ ServeError
        \/ Interrupt
        \/ Exit

Spec == Init /\ [][Next]_vars

\* --------------------------------------- the registry used on its own
MaxRegOps == 4

\* the clients handed to set_client, and the ways to get hold of the registry
RegClients == {1, 2}
RegHandles == {"client_registry", "ClientRegistry()"}

\* taking a handle: the global is there already, ClientRegistry() runs __new__
Handle(h) == IF h = "ClientRegistry()" THEN ClientRegistry_new(regInstances) ELSE regInstances

RegSet ==
    /\ Len(regLog) < MaxRegOps
    /\ \E h \in RegHandles, c \in RegClients :
          /\ regInstances' = Handle(h)
          /\ registry' = set_client(c)
          /\ regLog' = Append(regLog, [op |-> "set", client |-> c, handle |-> h])
    /\ UNCHANGED regGot
    /\ UNCHANGED <<slotVars, life, client, ctx, constructed, closes, lifeExc, exitStatus>>

RegClear ==
    /\ Len(regLog) < MaxRegOps
    /\ \E h \in RegHandles :
          /\ regInstances' = Handle(h)
          /\ registry' = clear_client
          /\ regLog' = Append(regLog, [op |-> "clear", client |-> 0, handle |-> h])
    /\ UNCHANGED regGot
    /\ UNCHANGED <<slotVars, life, client, ctx, constructed, closes, lifeExc, exitStatus>>

RegGet ==
    /\ Len(regLog) < MaxRegOps
    /\ \E h \in RegHandles :
          /\ regInstances' = Handle(h)
          /\ regGot' = Some(get_client(registry))
          /\ regLog' = Append(regLog, [op |-> "get", client |-> 0, handle |-> h])
    /\ UNCHANGED registry
    /\ UNCHANGED <<slotVars, life, client, ctx, constructed, closes, lifeExc, exitStatus>>

NextRegistry == RegSet \/ RegClear \/ RegGet

SpecRegistry == Init /\ [][NextRegistry]_vars

\* ------------------------------------------- concurrent invocations
\* the code of the handler up to its client call
Begin(a) ==
    CASE a.tool = "search_orders" -> search_orders_begin(a)
      [] a.tool = "get_order_summary" -> get_order_summary_begin(a)
      [] a.tool = "search_products" -> search_products_begin(a)
      [] a.tool = "get_product" -> get_product_begin(a)
      [] a.tool = "list_catalogs" -> list_catalogs_begin(registry)
      [] a.tool = "get_catalog" -> get_catalog_begin(a, registry)
      [] a.tool = "get_catalog_summary" -> get_catalog_summary_begin(registry)

\* tools take the client from the lifespan context, resources from the registry
ClientOf(a) ==
    IF a.tool \in Resources THEN get_client(registry).value ELSE lifespan_client

\* the requests of the concurrent specification: every tool and resource,
\* with first-page arguments
ConcCalls ==
    {a \in SearchOrdersCalls :
        /\ a.limit \in 1..SmallLimit /\ a.offset = 0 /\ a.countries = None
        /\ a.start_date = None /\ a.end_date = None}
    \cup {a \in GetOrderSummaryCalls : a.order_id = "order-1"}
    \cup {a \in SearchProductsCalls :
            a.limit = 1 /\ a.offset = 0 /\ a.attribute_filters = None
            /\ a.catalog_uid = "posters"}
    \cup {a \in GetProductCalls : a.product_uid = "product-1"}
    \cup {[tool |-> "list_catalogs"], [tool |-> "get_catalog_summary"],
          [tool |-> "get_catalog", catalog_uid |-> "posters"]}

\* the host starts a handler in a free slot while others are in flight
Invoke(s) ==
    /\ life = "serving"
    /\ pc[s] = "idle"
    /\ \E a \in ConcCalls : Continue(s, a, Begin(a), ClientOf(a))

NextConc ==
    \/ \E s \in Slots :
          \/ Invoke(s)
          \/ ClientReturns(s)
          \/ ClientRaises(s)
          \/ Deliver(s)
    \/ LoadSettings
    \/ ConstructClient
    \/ TestConnection
    \/ Shutdown
    \/ ServeError
    \/ Interrupt
    \/ Exit

SpecConc == Init /\ [][NextConc]_vars

\* ------------------------------------------------------------------ claims
Env(s) == ret[s][1]

IsSearch(s) == args[s].tool \in {"search_orders", "search_products"}

SearchSucceeded(s) == pc[s] = "returned" /\ IsSearch(s) /\ Env(s).success

\* the list the client returned to the search in slot s
ReturnedItems(s) ==
    IF args[s].tool = "search_orders"
    THEN answers[s][1].value.fields.orders
    ELSE answers[s][1].value.fields.products

HasToken(msg, t) == \E i \in 1..Len(msg) : msg[i] = t

ToolFailed(s) == pc[s] = "returned" /\ args[s].tool \in Tools /\ ~Env(s).success

ClientRaised(s) == Len(answers[s]) > 0 /\ answers[s][1].kind = "raise"

\* C1: in every successful search_orders / search_products envelope,
\* data.pagination.has_more is true iff the number of items the client
\* returned equals limit.
C1_HasMoreIffFull ==
    \A s \in Slots :
        SearchSucceeded(s) =>
            (Env(s).data.pagination.has_more <=> Len(ReturnedItems(s)) = args[s].limit)

C1_Witness ==
    \E s \in Slots :
        /\ SearchSucceeded(s)
        /\ args[s].tool = "search_products"
        /\ args[s].limit = MaxLimit
        /\ Len(ReturnedItems(s)) = MaxLimit
        /\ Env(s).data.pagination.has_more

\* C2: in every successful search envelope the message contains
\* "offset=<offset+limit>" precisely when data.pagination.has_more is true,
\* also when the client returns zero items and for every limit let through.
C2_OffsetHintIffHasMore ==
    \A s \in Slots :
        SearchSucceeded(s) =>
            (HasToken(Env(s).message, "offset=" \o Str(args[s].offset + args[s].limit))
                <=> Env(s).data.pagination.has_more)

\* C3: constructing SearchOrdersParams succeeds for every limit in 1..100
\* with every offset >= 0, and fails for limit = 0, limit = 101 and
\* offset = -1.
C3_ParamsValidation ==
    \A s \in Slots :
        (args[s].tool = "SearchOrdersParams" /\ args[s].limit # None /\ args[s].offset # None) =>
            /\ (args[s].limit[1] \in 1..MaxLimit /\ args[s].offset[1] >= 0) => pc[s] = "returned"
            /\ (args[s].limit[1] = 0 \/ args[s].limit[1] = MaxLimit + 1 \/ args[s].offset[1] = -1)
                  => pc[s] = "raised"

\* C4: a search_orders invocation whose limit is outside 1..100 or whose
\* offset is negative never calls the client's search_orders.
C4_NoCallOnBadPagination ==
    \A s \in Slots :
        (args[s].tool = "search_orders"
           /\ (args[s].limit \notin 1..MaxLimit \/ args[s].offset < 0)) =>
            calls[s] = <<>>

BadPagination(a) == a.limit < 1 \/ a.limit > MaxLimit \/ a.offset < 0

\* C5: a search_products invocation with limit < 1, limit > 100 or
\* offset < 0 returns a failure envelope (success false, operation
\* "search_products", catalog_uid echoed, message naming the out-of-range
\* field: limit when limit is out of range, otherwise offset) and never
\* calls the client.
C5_ProductsPaginationRejected ==
    \A s \in Slots :
        (args[s].tool = "search_products" /\ BadPagination(args[s])) =>
            /\ pc[s] = "returned"
            /\ ~Env(s).success
            /\ Env(s).error.operation = <<"search_products">>
            /\ Env(s).error.catalog_uid = args[s].catalog_uid
            /\ Env(s).error.message[1] =
                  (IF args[s].limit < 1 \/ args[s].limit > MaxLimit
                   THEN "Invalid limit: " ELSE "Invalid offset: ")
            /\ calls[s] = <<>>

C5_Witness ==
    \E s \in Slots :
        /\ args[s].tool = "search_products"
        /\ args[s].limit = 1 /\ args[s].offset = -1
        /\ pc[s] = "returned"
        /\ Env(s).error.message[1] = "Invalid offset: "

\* a non-empty string that datetime.fromisoformat rejects after 'Z' -> '+00:00'
BadDate(d) == Truthy(d) /\ ~fromisoformat(replaceZ(d[1])).ok

\* C6: a search_orders invocation (one the host dispatches to the tool) whose
\* start_date or end_date is a non-empty string that is not a valid ISO-8601
\* timestamp returns a failure envelope whose message names the first
\* offending field (start_date before end_date) and the expected format, and
\* never calls the client.
C6_BadDateFailsLocally ==
    \A s \in Slots :
        (args[s].tool = "search_orders" /\ pc[s] # "rejected"
           /\ (BadDate(args[s].start_date) \/ BadDate(args[s].end_date))) =>
            /\ pc[s] = "returned"
            /\ ~Env(s).success
            /\ Env(s).error.message[2] =
                  (IF BadDate(args[s].start_date) THEN "start_date" ELSE "end_date")
            /\ HasToken(Env(s).error.message, ". Use ISO 8601 format like '")
            /\ calls[s] = <<>>

C6_Witness ==
    \E s \in Slots :
        /\ args[s].tool = "search_orders"
        /\ pc[s] = "returned"
        /\ ~BadDate(args[s].start_date) /\ Truthy(args[s].start_date)
        /\ BadDate(args[s].end_date)
        /\ Env(s).error.message[2] = "end_date"

\* C7: for each of the four tools, whenever the client call raises (also an
\* exception outside the error taxonomy), the invocation ends by returning a
\* failure envelope carrying the operation; no exception leaves the tool.
C7_NoExceptionEscapes ==
    \A s \in Slots :
        (args[s].tool \in Tools /\ ClientRaised(s)) =>
            /\ pc[s] = "returned"
            /\ ~Env(s).success
            /\ "operation" \in DOMAIN Env(s).error

C9_OperationIsToolName ==
    \A s \in Slots :
        ToolFailed(s) => Env(s).error.operation = <<args[s].tool>>

RaisedExc(s) == answers[s][1].exc

\* C11: when the client raises CatalogNotFoundError in search_products(C) or
\* ProductNotFoundError in get_product(P), the failure envelope has
\* error.status_code = 404 and echoes the identifier (error.catalog_uid = C,
\* error.product_uid = P), also when the error has no status code of its own.
C11_NotFoundEnvelope ==
    \A s \in Slots :
        /\ (args[s].tool = "search_products" /\ ClientRaised(s)
              /\ RaisedExc(s).type = "CatalogNotFoundError") =>
              /\ pc[s] = "returned"
              /\ ~Env(s).success
              /\ Env(s).error.status_code = Some(NotFoundStatus)
              /\ Env(s).error.catalog_uid = args[s].catalog_uid
        /\ (args[s].tool = "get_product" /\ ClientRaised(s)
              /\ RaisedExc(s).type = "ProductNotFoundError") =>
              /\ pc[s] = "returned"
              /\ ~Env(s).success
              /\ Env(s).error.status_code = Some(NotFoundStatus)
              /\ Env(s).error.product_uid = args[s].product_uid

C11_Witness ==
    \E s \in Slots :
        /\ args[s].tool = "get_product"
        /\ ClientRaised(s)
        /\ RaisedExc(s).type = "ProductNotFoundError"
        /\ "status_code" \notin DOMAIN RaisedExc(s).attrs
        /\ pc[s] = "returned"
        /\ Env(s).error.status_code = Some(NotFoundStatus)

C13_StartupFailureFatal ==
    /\ []((lifeExc # None /\ life # "aborted") =>
             /\ life = "failed"
             /\ ctx = None
             /\ registry = None)
    /\ [][life = "failed" => life' = "failed"]_vars

C13_Witness ==
    /\ life = "failed"
    /\ client # None
    /\ closes = 1
    /\ lifeExc # None
    /\ lifeExc[1].type = "AuthenticationError"

\* C14: at most one GelatoClient is constructed, and while the lifespan is
\* serving exactly one was, and the client of the lifespan context and the
\* client client_registry.get_client() returns are that one instance.
C14_OneSharedClient ==
    /\ constructed <= 1
    /\ life = "serving" =>
          /\ constructed = 1
          /\ ctx # None
          /\ get_client(registry).ok
          /\ get_client(registry).value = ctx[1]
          /\ ctx[1] = constructed

C14_Witness ==
    /\ life = "serving"
    /\ \E s \in Slots :
          /\ pc[s] = "awaiting"
          /\ LastCall(s).client = get_client(registry).value

IsHandler(s) == args[s].tool \in Tools \cup Resources

\* a returned result that reports a failure: a failure envelope of a tool,
\* an error document of a resource
FailureResult(s) ==
    IF args[s].tool \in Resources
    THEN "error" \in DOMAIN Env(s).json
    ELSE ~Env(s).success

SlotState(s) == <<pc[s], args[s], calls[s], answers[s], ret[s], exc[s]>>

\* what the handler's code gives for the arguments of slot s, the one call
\* it made and the client's answer to that call
OwnOutcome(s) == Resume(args[s], calls[s][1], answers[s][1])

\* C16: concurrent invocations share no mutable state. Under every
\* interleaving of two in-flight invocations, a step of an invocation changes
\* the state of that invocation only and leaves the registry, the lifespan
\* context and every other lifespan variable alone; the call an invocation
\* makes is the one its own arguments give, the answer it gets is one the
\* client gives to that call, and its result is what its code gives for its
\* own arguments and that answer.
C16_NoSharedState ==
    /\ [][\A s \in Slots :
            SlotState(s)' # SlotState(s) =>
                /\ UNCHANGED lifeVars
                /\ \A t \in Slots \ {s} : SlotState(t)' = SlotState(t)]_vars
    /\ [](\A s \in Slots :
            IsHandler(s) =>
                /\ Len(calls[s]) <= 1
                /\ Len(calls[s]) = 1 =>
                      /\ Begin(args[s]).kind = "await"
                      /\ calls[s][1].method = Begin(args[s]).call.method
                      /\ calls[s][1].params = Begin(args[s]).call.params
                /\ Len(answers[s]) = 1 =>
                      /\ answers[s][1].kind = "value" =>
                            answers[s][1].value \in ClientValues(calls[s][1])
                      /\ answers[s][1].kind = "raise" =>
                            answers[s][1].exc \in ClientRaisable(calls[s][1])
                      /\ pc[s] = "returned" => ret[s] = Some(OwnOutcome(s).env)
                      /\ pc[s] = "raised" => exc[s] = Some(OwnOutcome(s).exc))

C16_Witness ==
    /\ pc[1] = "returned"
    /\ args[1].tool = "search_orders"
    /\ Len(answers[1]) = 1
    /\ pc[2] = "awaiting"
    /\ args[2].tool = "get_catalog"
    /\ registry # None

\* the same timestamp written with the other UTC suffix
OtherUtcSuffix(d) ==
    IF d = None \/ Len(d[1]) # 2 THEN d
    ELSE IF d[1][2] = "Z" THEN Some(<<d[1][1], "+00:00">>)
    ELSE IF d[1][2] = "+00:00" THEN Some(<<d[1][1], "Z">>)
    ELSE d

UtcTwin(a) ==
    [a EXCEPT !.start_date = OtherUtcSuffix(a.start_date),
              !.end_date = OtherUtcSuffix(a.end_date)]

HasUtcDate(a) ==
    \E d \in {a.start_date, a.end_date} :
        d # None /\ Len(d[1]) = 2 /\ d[1][2] \in {"Z", "+00:00"}

\* C17: when search_orders has called the client with a start_date or
\* end_date written with 'Z' (or with '+00:00'), the SearchOrdersParams it
\* passed, startDate and endDate included, are the ones the tool passes for
\* the same arguments with the dates written with the other suffix.
C17_UtcSuffixEquivalent ==
    \A s \in Slots :
        (args[s].tool = "search_orders" /\ Len(calls[s]) = 1 /\ HasUtcDate(args[s])) =>
            LET twin == search_orders_begin(UtcTwin(args[s]))
            IN /\ twin.kind = "await"
               /\ twin.call.params.fields.startDate = calls[s][1].params.fields.startDate
               /\ twin.call.params.fields.endDate = calls[s][1].params.fields.endDate
               /\ twin.call.params = calls[s][1].params

C17_Witness ==
    \E s \in Slots :
        /\ args[s].tool = "search_orders"
        /\ pc[s] = "awaiting"
        /\ args[s].start_date = Some(<<"2024-01-01T00:00:00", "Z">>)
        /\ args[s].end_date = Some(<<"2024-01-01T00:00:00", "+00:00">>)
        /\ calls[s][1].params.fields.startDate = calls[s][1].params.fields.endDate
        /\ calls[s][1].params.fields.startDate[1].utcoffset = Some("+00:00")

\* data.orders of a search_orders envelope, data.products of a search_products one
ListedItems(s) ==
    IF args[s].tool = "search_orders" THEN Env(s).data.orders ELSE Env(s).data.products

C19_FlexibleFieldsVerbatim ==
    \A s \in Slots :
        (args[s].tool = "get_product" /\ Len(answers[s]) = 1
           /\ answers[s][1].kind = "value") =>
            /\ pc[s] = "returned"
            /\ Env(s).success
            /\ Env(s).data.weight = answers[s][1].value.fields.weight
            /\ Env(s).data.dimensions = answers[s][1].value.fields.dimensions

C19_Witness ==
    \E s \in Slots :
        /\ args[s].tool = "get_product"
        /\ pc[s] = "returned"
        /\ Env(s).success
        /\ Env(s).data.weight = <<"lightweight">>
        /\ Env(s).data.dimensions # None
        /\ Env(s).data.dimensions[2] = <<"Assemblytype", <<"fixed_one_stack">> >>
        /\ Env(s).data.dimensions[3][2][1][2][1][2] = <<"whatever">>

\* C20: constructing a Catalog fails when catalogUid or title is missing and
\* also when either is the empty string; it succeeds only with both present
\* and non-empty.
C20_CatalogNonEmpty ==
    \A s \in Slots :
        args[s].tool = "Catalog" =>
            /\ (args[s].catalogUid = None \/ args[s].title = None) => pc[s] = "raised"
            /\ (args[s].catalogUid = Some("") \/ args[s].title = Some("")) => pc[s] = "raised"

ResourceReturned(s) == pc[s] = "returned" /\ args[s].tool \in Resources

\* C21: every document a catalog resource returns is the uniform envelope:
\* it has a success flag, with data and message when success is true and with
\* an error object when it is false.
C21_ResourceEnvelope ==
    \A s \in Slots :
        ResourceReturned(s) =>
            /\ "success" \in DOMAIN Env(s).json
            /\ IF ClientRaised(s)
               THEN "error" \in DOMAIN Env(s).json
               ELSE {"data", "message"} \subseteq DOMAIN Env(s).json

\* C22: whenever the client raises an error of the taxonomy (GelatoAPIError
\* or a subclass) to a catalog resource, the resource returns a JSON error
\* document with an error text and the exception's message, and get_catalog's
\* document names the catalog_uid asked for; the exception does not leave
\* the handler.
C22_ResourceErrorsConverted ==
    \A s \in Slots :
        (args[s].tool \in Resources /\ ClientRaised(s)
           /\ isinstance(RaisedExc(s), "GelatoAPIError")) =>
            /\ pc[s] = "returned"
            /\ exc[s] = None
            /\ "error" \in DOMAIN Env(s).json
            /\ Env(s).json.message = RaisedExc(s).message
            /\ args[s].tool = "get_catalog" =>
                  Env(s).json.catalog_uid = args[s].catalog_uid

C22_Witness ==
    \E s \in Slots :
        /\ args[s].tool = "list_catalogs"
        /\ ClientRaised(s)
        /\ RaisedExc(s).type = "GelatoAPIError"
        /\ pc[s] = "returned"
        /\ Env(s).json.message = <<"Internal server error">>
        /\ Env(s).json.status_code = Some(ServerErrorStatus)

\* the value the caller passed for a parameter, or the documented default
\* when the caller left the parameter out
Passed(a, name, default) == IF name \in a.omitted THEN default ELSE a[name]

\* C23: tool arguments reach the client unchanged. The one call of
\* search_products carries the caller's catalog_uid and a request whose
\* attributeFilters, limit and offset are the caller's (no filters, 50 and 0
\* when left out); the one call of search_orders carries SearchOrdersParams
\* whose limit, offset and filter fields are the caller's (50, 0 and absent
\* when left out).
C23_ArgumentsReachClient ==
    \A s \in Slots :
        /\ (args[s].tool = "search_products" /\ Len(calls[s]) = 1) =>
              LET p == calls[s][1].params
                  a == args[s]
              IN /\ calls[s][1].method = "search_products"
                 /\ p.catalog_uid = a.catalog_uid
                 /\ p.request.fields.attributeFilters = Passed(a, "attribute_filters", None)
                 /\ p.request.fields.limit = Passed(a, "limit", DefaultLimit)
                 /\ p.request.fields.offset = Passed(a, "offset", 0)
        /\ (args[s].tool = "search_orders" /\ Len(calls[s]) = 1) =>
              LET f == calls[s][1].params.fields
                  a == args[s]
              IN /\ calls[s][1].method = "search_orders"
                 /\ f.limit = Some(Passed(a, "limit", DefaultLimit))
                 /\ f.offset = Some(Passed(a, "offset", 0))
                 /\ f.orderTypes = Passed(a, "order_types", None)
                 /\ f.countries = Passed(a, "countries", None)
                 /\ f.currencies = Passed(a, "currencies", None)
                 /\ f.financialStatuses = Passed(a, "financial_statuses", None)
                 /\ f.fulfillmentStatuses = Passed(a, "fulfillment_statuses", None)
                 /\ f.search = Passed(a, "search_text", None)
                 /\ f.orderReferenceIds = Passed(a, "order_reference_ids", None)
                 /\ f.storeIds = Passed(a, "store_ids", None)
                 /\ f.channels = Passed(a, "channels", None)
                 /\ "start_date" \in a.omitted => f.startDate = None
                 /\ "end_date" \in a.omitted => f.endDate = None

C23_Witness ==
    \E s \in Slots :
        /\ args[s].tool = "search_orders"
        /\ args[s].omitted = SearchOrdersOptional
        /\ pc[s] = "awaiting"
        /\ calls[s][1].params.fields.limit = Some(DefaultLimit)
        /\ calls[s][1].params.fields.offset = Some(0)
        /\ calls[s][1].params.fields.countries = None

MessageOf(s) == Env(s).message

IsNoneFound(msg) ==
    msg[1] \in {"No orders found matching the search criteria",
                "No products found in catalog '"}

IsFound(s, msg) == msg[1] = "Found " /\ msg[2] = Str(Len(ReturnedItems(s)))

HasNextPageHint(s, msg) ==
    /\ \E i \in 1..Len(msg) :
          msg[i] \in {" orders (may have more results, use ", "(may have more results, use "}
    /\ HasToken(msg, "offset=" \o Str(args[s].offset + args[s].limit))

NamesFilters(msg) == HasToken(msg, "' matching the specified filters")

\* C25: the message of a successful search follows the count: zero results
\* give a "No ... found" message, which for search_products names the filters
\* exactly when a non-empty attribute_filters was passed; count = limit gives
\* "Found N ... (may have more results, use offset=<offset+limit> ...)"; any
\* other count gives a plain "Found N ..." message.
C25_MessageByCount ==
    \A s \in Slots :
        SearchSucceeded(s) =>
            LET n == Len(ReturnedItems(s))
                msg == MessageOf(s)
            IN /\ n = 0 =>
                    /\ IsNoneFound(msg)
                    /\ args[s].tool = "search_products" =>
                          (NamesFilters(msg) <=> Truthy(args[s].attribute_filters))
               /\ n = args[s].limit => (IsFound(s, msg) /\ HasNextPageHint(s, msg))
               /\ (n # 0 /\ n # args[s].limit) =>
                    (IsFound(s, msg) /\ ~HasNextPageHint(s, msg))

Writes(log) == {i \in 1..Len(log) : log[i].op \in {"set", "clear"}}

LastWrite(log) == CHOOSE i \in Writes(log) : \A j \in Writes(log) : j <= i

\* the client set most recently with no clear_client since, if there is one
CurrentlySet(log) ==
    IF Writes(log) = {} \/ log[LastWrite(log)].op = "clear"
    THEN None
    ELSE Some(log[LastWrite(log)].client)

\* C26: after any sequence of set_client, clear_client and get_client calls
\* through any handle, the registry holds the client set most recently with
\* no clear_client since (so get_client left it alone); a get_client that
\* has just run returned that client, or raised RuntimeError when there is
\* none, and never returned an empty reference; all handles are the one
\* instance.
C26_RegistrySemantics ==
    /\ regInstances = 1
    /\ registry = CurrentlySet(regLog)
    /\ (Len(regLog) > 0 /\ regLog[Len(regLog)].op = "get") =>
          /\ regGot # None
          /\ regGot[1].ok <=> CurrentlySet(regLog) # None
          /\ regGot[1].ok =>
                (regGot[1].value \in RegClients /\ Some(regGot[1].value) = CurrentlySet(regLog))

C26_Witness ==
    /\ Len(regLog) = 4
    /\ regLog[1].op = "set" /\ regLog[1].client = 1 /\ regLog[1].handle = "client_registry"
    /\ regLog[2].op = "set" /\ regLog[2].client = 2 /\ regLog[2].handle = "ClientRegistry()"
    /\ regLog[3].op = "get" /\ regLog[3].handle = "client_registry"
    /\ regLog[4].op = "get"
    /\ regGot = Some([ok |-> TRUE, value |-> 2])

\* the lifespan has passed its await of test_connection without an exception
ProbeSucceeded ==
    \/ life \in {"serving", "stopped", "aborted"}
    \/ life = "interrupted" /\ ctx # None

\* C27: the registry holds a client only after test_connection has returned
\* successfully, and then it is the client that was probed; while the
\* lifespan has not got that far (or has failed before its yield)
\* get_client() raises RuntimeError.
C27_RegisteredAfterProbe ==
    /\ get_client(registry).ok =>
          /\ ProbeSucceeded
          /\ client # None
          /\ get_client(registry).value = client[1]
    /\ ~ProbeSucceeded => ~get_client(registry).ok

C27_Witness ==
    /\ life = "probing"
    /\ client # None
    /\ ~get_client(registry).ok

LifespanEnded == life \in {"stopped", "failed", "aborted"}

\* C28: whenever the lifespan has ended after the client was constructed
\* (shutdown, failed probe, exception while serving), close() was called
\* exactly once and the registry holds no client, also when close() raised.
C28_ClosedAndCleared ==
    (LifespanEnded /\ client # None) =>
        /\ closes = 1
        /\ registry = None
        /\ ~get_client(registry).ok

\* a read started by following a resource_uri of the catalog summary
FollowedLink(s) == args[s].tool \in Resources /\ "link" \in DOMAIN args[s]

\* C29: a read of a resource_uri emitted by catalogs://summary for a catalog
\* is served by get_catalog with that catalog's catalogUid, for every
\* catalogUid the provider returns, "list" and "summary" included.
C29_SummaryUriResolves ==
    \A s \in Slots :
        FollowedLink(s) =>
            /\ args[s].tool = "get_catalog"
            /\ args[s].catalog_uid = args[s].link

\* C30: the exit status tells failures from clean stops. Once main has
\* returned, it returned 1 exactly when an exception left the lifespan (a
\* failure of settings, client construction or the probe, or an exception
\* while serving) and so left run_server, and 0 exactly when the lifespan
\* ended by shutdown or by a user interrupt; and main does return in each of
\* these cases.
C30_ExitStatus ==
    /\ [](exitStatus # None =>
            /\ exitStatus \in {Some(0), Some(1)}
            /\ exitStatus = Some(1) <=> (life \in {"failed", "aborted"} /\ lifeExc # None)
            /\ exitStatus = Some(0) <=> (life \in {"stopped", "interrupted"} /\ lifeExc = None))
    /\ [][(life \in {"stopped", "failed", "aborted", "interrupted"} /\ exitStatus = None
             /\ exitStatus' # exitStatus) =>
               exitStatus' \in {Some(0), Some(1)}]_vars

C30_Witness ==
    /\ exitStatus = Some(1)
    /\ life = "failed"
    /\ lifeExc # None
    /\ lifeExc[1].type = "AuthenticationError"

====
